---- MODULE Spec2Model ----
(***************************************************************************)
(* Model of dayone2notion.py: the Day One -> Notion migration script.      *)
(*                                                                         *)
(* Strings are sequences of one-character strings, so that slicing,        *)
(* concatenation and len() are the sequence operations.  A Python dict is  *)
(* a function whose DOMAIN is the set of keys present.  None is the empty  *)
(* sequence where the code only tests truthiness.  A datetime is an        *)
(* instant, counted in whole minutes since 2024-01-01T00:00Z.              *)
(*                                                                         *)
(* Input domain: the export format.  creationDate, when present, is a      *)
(* string: empty, or written as a UTC timestamp with a trailing Z, which    *)
(* may name a day the calendar does not have (2024-02-30).  text is        *)
(* a string, photos a list of dicts whose md5/type are non-empty strings   *)
(* when present.                                                           *)
(***************************************************************************)
EXTENDS Integers, Sequences, FiniteSets, TLC

VARIABLES
    pc,             \* position of the run in process_dayone_json_to_notion
    secrets_file,   \* content of secrets.json on disk (input)
    secrets,        \* value returned by load_secrets()
    json_files,     \* number of paths of glob's list known so far
    file_idx,       \* number of files the reading loop has finished
    cur_file,       \* content of the file read by the last iteration
    all_entries,    \* list of {'dt', 'data'}
    idx,            \* 1-based position of `item` in all_entries
    formatted_date, \* local of the entry loop
    iso_date_jst,   \* local of the entry loop
    image_blocks,   \* local of the entry loop
    children,       \* local of the entry loop
    photo_idx,      \* 1-based position of `photo` in entry['photos']
    file_upload_id, \* local of upload_file_to_notion
    count,          \* pages created
    trace,          \* file reads, HTTP/API requests and sleeps, in issue order
    stdout,         \* print() output
    stderr          \* traceback of an uncaught exception

vars == <<pc, secrets_file, secrets, children, json_files, file_idx, cur_file, all_entries,
          idx, formatted_date, iso_date_jst, image_blocks, photo_idx,
          file_upload_id, count, trace, stdout, stderr>>

-----------------------------------------------------------------------------
(* Bounds of the model *)

MaxFiles == 2
MaxEntriesPerFile == 2
MaxBatch == 2
MaxUploads == 2
MaxLines == 2

(* Program constants *)

BlockLimit == 2000
SleepSeconds == 1
TokyoOffsetHours == 9

-----------------------------------------------------------------------------
(* Strings *)

None == << >>
EmptyDict == [k \in {} |-> 0]

Get(d, k, default) == IF k \in DOMAIN d THEN d[k] ELSE default

Digit(n) == <<"0", "1", "2", "3", "4", "5", "6", "7", "8", "9">>[n + 1]
Pad2(n) == <<Digit((n \div 10) % 10), Digit(n % 10)>>
Pad4(n) == <<Digit((n \div 1000) % 10), Digit((n \div 100) % 10)>> \o Pad2(n)

-----------------------------------------------------------------------------
(* Dates: datetime.fromisoformat, astimezone, strftime *)

IsLeap(y) == (y % 4 = 0 /\ y % 100 # 0) \/ y % 400 = 0
DaysInYear(y) == IF IsLeap(y) THEN 366 ELSE 365
DaysInMonth(y, m) ==
    IF m = 2 THEN (IF IsLeap(y) THEN 29 ELSE 28)
    ELSE IF m \in {4, 6, 9, 11} THEN 30 ELSE 31

RECURSIVE DaysBeforeYear(_)
DaysBeforeYear(y) == IF y <= 2024 THEN 0 ELSE DaysBeforeYear(y - 1) + DaysInYear(y - 1)

RECURSIVE DaysBeforeMonth(_, _)
DaysBeforeMonth(y, m) == IF m <= 1 THEN 0 ELSE DaysBeforeMonth(y, m - 1) + DaysInMonth(y, m - 1)

\* A creationDate string: "" or "YYYY-MM-DDTHH:MM:00Z", the digits being any
DateString(kind, y, mo, d, h, mi) ==
    [kind |-> kind, y |-> y, mo |-> mo, d |-> d, h |-> h, mi |-> mi]
EmptyString == DateString("empty", 0, 0, 0, 0, 0)
IsoZ(y, mo, d, h, mi) == DateString("iso", y, mo, d, h, mi)

Truthy(s) == s.kind # "empty"

\* datetime.fromisoformat(s.replace('Z', '+00:00')) raises ValueError
RaisesValueError(s) ==
    \/ s.kind # "iso"
    \/ s.mo \notin 1..12
    \/ s.d \notin 1..DaysInMonth(s.y, s.mo)
    \/ s.h \notin 0..23
    \/ s.mi \notin 0..59

FromIsoFormat(s) ==
    ((DaysBeforeYear(s.y) + DaysBeforeMonth(s.y, s.mo) + (s.d - 1)) * 24 + s.h) * 60 + s.mi

\* faulty variant: the instant is formatted in UTC
AsTimezoneUtc(dt) == dt

\* dt_utc.astimezone(ZoneInfo("Asia/Tokyo")): the wall clock of the instant in JST
AsTimezoneTokyo(dt) == dt + TokyoOffsetHours * 60

YearOfDay(n) == CHOOSE y \in 2024..2026 :
                    DaysBeforeYear(y) <= n /\ n < DaysBeforeYear(y) + DaysInYear(y)
MonthOfDay(y, n) == CHOOSE m \in 1..12 :
                    DaysBeforeMonth(y, m) <= n /\ n < DaysBeforeMonth(y, m) + DaysInMonth(y, m)

\* dt.strftime('%Y-%m-%d') of a wall clock counted in minutes
Strftime(wall) ==
    LET n == wall \div (24 * 60)
        y == YearOfDay(n)
        r == n - DaysBeforeYear(y)
        m == MonthOfDay(y, r)
        d == r - DaysBeforeMonth(y, m) + 1
    IN  Pad4(y) \o <<"-">> \o Pad2(m) \o <<"-">> \o Pad2(d)

-----------------------------------------------------------------------------
(* Text: str.split('\n'), truncation, blocks *)

NewlinePositions(text) == {i \in 1..Len(text) : text[i] = "\n"}

\* text.split('\n'): the pieces between consecutive newlines, empty pieces kept
Split(text) ==
    LET nl == NewlinePositions(text)
        n == Cardinality(nl)
        Pos(k) == IF k = 0 THEN 0
                  ELSE IF k = n + 1 THEN Len(text) + 1
                  ELSE CHOOSE p \in nl : Cardinality({q \in nl : q < p}) = k - 1
    IN  [k \in 1..(n + 1) |-> SubSeq(text, Pos(k - 1) + 1, Pos(k) - 1)]

Paragraph(content) == [type |-> "paragraph", content |-> content, file_upload |-> None]
ImageBlock(id) == [type |-> "image", content |-> << >>, file_upload |-> id]

\* if len(line) > 2000: line = line[:2000] + "..."
Truncate(line) ==
    IF Len(line) > BlockLimit
    THEN SubSeq(line, 1, BlockLimit) \o <<".", ".", ".">>
    ELSE line

TextBlocks(text) ==
    LET lines == Split(text)
    IN  [k \in 1..Len(lines) |-> Paragraph(Truncate(lines[k]))]

-----------------------------------------------------------------------------
(* Inputs *)

Str3(a, b, c) == <<a, b, c>>

\* secrets.json: absent, not JSON, or a JSON object with some of the two keys
SecretsInputs ==
    {[exists |-> FALSE, json |-> FALSE, keys |-> {}],
     [exists |-> TRUE, json |-> FALSE, keys |-> {}]}
    \cup {[exists |-> TRUE, json |-> TRUE, keys |-> K] :
            K \in SUBSET {"NOTION_TOKEN", "NOTION_DATABASE_ID"}}

PhotoAbcJpg == [md5 |-> Str3("a", "b", "c"), type |-> Str3("j", "p", "g")]
PhotoDefPng == [md5 |-> Str3("d", "e", "f"), type |-> Str3("p", "n", "g")]
PhotoAbcPng == [md5 |-> Str3("a", "b", "c"), type |-> Str3("p", "n", "g")]
PhotoNoMd5 == [type |-> Str3("j", "p", "g")]
PhotoNoType == [md5 |-> Str3("d", "e", "f")]

\* f"{md5}.{file_type}"
Filename(md5, file_type) == md5 \o <<".">> \o file_type

\* the files present in dayone/photos
PhotosDir == {Filename(PhotoAbcJpg.md5, PhotoAbcJpg.type),
              Filename(PhotoDefPng.md5, PhotoDefPng.type)}

Exists(filename) == filename \in PhotosDir

\* the entries an export file can hold: every kind of creationDate, with and
\* without text and photos
EntryPool ==
    {[photos |-> <<PhotoAbcJpg>>],
     [creationDate |-> EmptyString, text |-> <<"a">>],
     [creationDate |-> IsoZ(2024, 2, 30, 10, 0), photos |-> <<PhotoDefPng>>],
     [creationDate |-> IsoZ(2024, 1, 1, 15, 0), text |-> <<"a", "\n", "b">>],
     [creationDate |-> IsoZ(2024, 1, 2, 14, 59), photos |-> <<PhotoAbcJpg, PhotoDefPng>>],
     [creationDate |-> IsoZ(2024, 2, 29, 20, 30), text |-> <<"a", "\n", "\n", "b">>,
      photos |-> <<PhotoAbcPng, PhotoAbcJpg, PhotoNoType>>],
     [creationDate |-> IsoZ(2024, 12, 31, 15, 0), text |-> << >>, photos |-> <<PhotoNoMd5>>]}

SeqsUpTo(S, n) == UNION {[1..k -> S] : k \in 0..n}

\* what open() + json.load() of one export file can give
FileContents ==
    {[kind |-> "unreadable", entries |-> << >>],
     [kind |-> "nokey", entries |-> << >>]}
    \cup {[kind |-> "entries", entries |-> es] : es \in SeqsUpTo(EntryPool, MaxEntriesPerFile)}

NoFile == [kind |-> "none", entries |-> << >>]

-----------------------------------------------------------------------------
(* Initial state *)

Init ==
    /\ pc = "start"
    /\ secrets_file \in SecretsInputs
    /\ secrets = [none |-> TRUE, keys |-> {}]
    /\ json_files = 0
    /\ file_idx = 0
    /\ cur_file = NoFile
    /\ all_entries = << >>
    /\ idx = 0
    /\ formatted_date = << >>
    /\ iso_date_jst = << >>
    /\ image_blocks = << >>
    /\ children = << >>
    /\ photo_idx = 0
    /\ file_upload_id = None
    /\ count = 0
    /\ trace = << >>
    /\ stdout = << >>
    /\ stderr = << >>

Ev(op, item, arg, ok) == [op |-> op, item |-> item, arg |-> arg, ok |-> ok]

-----------------------------------------------------------------------------
(* load_secrets and the start of process_dayone_json_to_notion *)

\* load_secrets(): None on FileNotFoundError and on JSONDecodeError, each printed
LoadSecrets ==
    /\ pc = "start"
    /\ pc' = "loaded"
    /\ IF ~secrets_file.exists
       THEN /\ secrets' = [none |-> TRUE, keys |-> {}]
            /\ stdout' = Append(stdout, <<"Error: secrets.json not found", 0>>)
       ELSE IF ~secrets_file.json
       THEN /\ secrets' = [none |-> TRUE, keys |-> {}]
            /\ stdout' = Append(stdout, <<"Error: Invalid JSON in secrets.json", 0>>)
       ELSE /\ secrets' = [none |-> FALSE, keys |-> secrets_file.keys]
            /\ UNCHANGED stdout
    /\ UNCHANGED <<secrets_file, children, json_files, file_idx, cur_file, all_entries, idx,
                   formatted_date, iso_date_jst, image_blocks, photo_idx,
                   file_upload_id, count, trace, stderr>>

\* `not secrets`: None and the empty dict are both falsy
NotSecrets(s) == s.none \/ s.keys = {}

\* if not secrets: return; secrets["NOTION_TOKEN"]; secrets["NOTION_DATABASE_ID"]; glob
Configure ==
    /\ pc = "loaded"
    /\ IF NotSecrets(secrets)
       THEN /\ pc' = "aborted"
            /\ UNCHANGED <<json_files, stdout, stderr>>
       ELSE IF "NOTION_TOKEN" \notin secrets.keys
       THEN /\ pc' = "crashed"
            /\ stderr' = Append(stderr, <<"KeyError", "NOTION_TOKEN">>)
            /\ UNCHANGED <<json_files, stdout>>
       ELSE IF "NOTION_DATABASE_ID" \notin secrets.keys
       THEN /\ pc' = "crashed"
            /\ stderr' = Append(stderr, <<"KeyError", "NOTION_DATABASE_ID">>)
            /\ UNCHANGED <<json_files, stdout>>
       ELSE /\ pc' = "read"
            /\ stdout' = stdout \o <<<<"Found JSON files", 0>>,
                                     <<"Reading and parsing all entries...", 0>>>>
            /\ UNCHANGED <<json_files, stderr>>
    /\ UNCHANGED <<secrets_file, secrets, children, file_idx, cur_file, all_entries, idx,
                   formatted_date, iso_date_jst, image_blocks, photo_idx,
                   file_upload_id, count, trace>>

-----------------------------------------------------------------------------
(* The reading loop *)

\* the entry passes `if creation_date_str:` and fromisoformat does not raise
Collected(entry) ==
    LET creation_date_str == Get(entry, "creationDate", EmptyString)
    IN  Truthy(creation_date_str) /\ ~RaisesValueError(creation_date_str)

Item(entry) == [dt |-> FromIsoFormat(entry["creationDate"]), data |-> entry]

\* faulty variant: a date that does not parse ends the file's loop, as if the
\* ValueError reached the handler of the file
RECURSIVE CollectUntilInvalid(_)
CollectUntilInvalid(entries) ==
    IF entries = << >> THEN << >>
    ELSE IF Collected(Head(entries))
    THEN <<Item(Head(entries))>> \o CollectUntilInvalid(Tail(entries))
    ELSE IF Truthy(Get(Head(entries), "creationDate", EmptyString)) THEN << >>
    ELSE CollectUntilInvalid(Tail(entries))

\* for entry in data['entries']: append {'dt', 'data'}, or pass on ValueError
RECURSIVE CollectEntries(_)
CollectEntries(entries) ==
    IF entries = << >> THEN << >>
    ELSE (IF Collected(Head(entries)) THEN <<Item(Head(entries))>> ELSE << >>)
         \o CollectEntries(Tail(entries))

\* what one iteration of `for file_path in json_files` appends to all_entries
EntriesOfFile(f) ==
    IF f.kind = "entries" THEN CollectEntries(f.entries) ELSE << >>

\* what one iteration prints: only the except branch prints
PrintsOfFile(f, n) ==
    IF f.kind = "unreadable" THEN <<<<"Error reading", n>>>> ELSE << >>

PhotoFilename(photo) == Filename(photo["md5"], photo["type"])

\* if md5 and file_type: ... if os.path.exists(photo_path):
Uploadable(photo) ==
    /\ Get(photo, "md5", None) # None
    /\ Get(photo, "type", None) # None
    /\ Exists(PhotoFilename(photo))

\* the upload slots a batch asks for
RECURSIVE UploadsOf(_)
UploadsOf(items) ==
    IF items = << >> THEN 0
    ELSE LET photos == Get(Head(items).data, "photos", << >>)
         IN  Cardinality({k \in 1..Len(photos) : Uploadable(photos[k])})
             + UploadsOf(Tail(items))

\* One iteration of `for file_path in json_files`.  The directory listing is an
\* input, revealed one path at a time: the loop goes on while another path follows.
ReadFile ==
    /\ pc = "read"
    /\ file_idx < MaxFiles
    /\ json_files' = file_idx + 1
    /\ \E f \in FileContents :
        LET appended == EntriesOfFile(f) IN
        /\ Len(all_entries) + Len(appended) <= MaxBatch
        /\ UploadsOf(all_entries \o appended) <= MaxUploads
        /\ cur_file' = f
        /\ all_entries' = all_entries \o appended
        /\ stdout' = stdout \o PrintsOfFile(f, file_idx + 1)
    /\ file_idx' = file_idx + 1
    /\ trace' = Append(trace, Ev("open", file_idx + 1, 0, TRUE))
    /\ UNCHANGED <<pc, secrets_file, secrets, children, idx, formatted_date,
                   iso_date_jst, image_blocks, photo_idx, file_upload_id, count,
                   stderr>>

\* list.sort(key=lambda x: x['dt']) is stable: x goes after every element <= x
RECURSIVE InsertByDt(_, _)
InsertByDt(sorted, x) ==
    IF sorted = << >> THEN <<x>>
    ELSE IF Head(sorted).dt <= x.dt THEN <<Head(sorted)>> \o InsertByDt(Tail(sorted), x)
    ELSE <<x>> \o sorted

\* faulty variant: the list is left in collection order
Unsorted(s) == s

RECURSIVE SortByDt(_)
SortByDt(s) ==
    IF s = << >> THEN << >>
    ELSE InsertByDt(SortByDt(SubSeq(s, 1, Len(s) - 1)), s[Len(s)])

\* the listing is exhausted: sort, then start the entry loop
SortEntries ==
    /\ pc = "read"
    /\ file_idx = json_files
    /\ all_entries' = SortByDt(all_entries)
    /\ stdout' = Append(stdout, <<"Total entries to import", Len(all_entries)>>)
    /\ count' = 0
    /\ idx' = 1
    /\ cur_file' = NoFile
    /\ pc' = "loop"
    /\ UNCHANGED <<secrets_file, secrets, children, json_files, file_idx, formatted_date,
                   iso_date_jst, image_blocks, photo_idx, file_upload_id, trace,
                   stderr>>

-----------------------------------------------------------------------------
(* The entry loop: dates *)

CreationDateStr(item) == Get(item.data, "creationDate", EmptyString)

\* formatted_date after both `if creation_date_str:` blocks
FormattedDate(item) ==
    LET creation_date_str == CreationDateStr(item)
        first == IF Truthy(creation_date_str)
                 THEN Strftime(AsTimezoneTokyo(item.dt)) ELSE << >>
    IN  IF ~Truthy(creation_date_str) THEN first
        ELSE IF RaisesValueError(creation_date_str) THEN creation_date_str
        ELSE Strftime(AsTimezoneTokyo(FromIsoFormat(creation_date_str)))

\* iso_date_jst after both `if creation_date_str:` blocks
IsoDateJst(item) ==
    LET creation_date_str == CreationDateStr(item)
        first == IF Truthy(creation_date_str)
                 THEN Strftime(AsTimezoneTokyo(item.dt)) ELSE << >>
    IN  IF ~Truthy(creation_date_str) \/ RaisesValueError(creation_date_str) THEN first
        ELSE Strftime(AsTimezoneTokyo(FromIsoFormat(creation_date_str)))

Entry == all_entries[idx].data
Photos == Get(Entry, "photos", << >>)

BeginEntry ==
    /\ pc = "loop"
    /\ idx <= Len(all_entries)
    /\ formatted_date' = FormattedDate(all_entries[idx])
    /\ iso_date_jst' = IsoDateJst(all_entries[idx])
    /\ image_blocks' = << >>
    /\ children' = << >>
    /\ photo_idx' = 1
    /\ pc' = "photos"
    /\ UNCHANGED <<secrets_file, secrets, json_files, file_idx, cur_file, all_entries,
                   idx, file_upload_id, count, trace, stdout, stderr>>

-----------------------------------------------------------------------------
(* The entry loop: photos and upload_file_to_notion *)

NextPhoto ==
    /\ pc = "photos"
    /\ photo_idx <= Len(Photos)
    /\ IF Uploadable(Photos[photo_idx])
       THEN /\ pc' = "upload"
            /\ stdout' = Append(stdout, <<"Uploading", PhotoFilename(Photos[photo_idx])>>)
            /\ UNCHANGED photo_idx
       ELSE /\ photo_idx' = photo_idx + 1
            /\ UNCHANGED <<pc, stdout>>
    /\ UNCHANGED <<secrets_file, secrets, children, json_files, file_idx, cur_file, all_entries,
                   idx, formatted_date, iso_date_jst, image_blocks, file_upload_id,
                   count, trace, stderr>>

\* f"[Image Upload Failed: {filename}]"
FallbackText(filename) == <<"[Image Upload Failed: ">> \o filename \o <<"]">>

\* if upload_id: image block, else: fallback paragraph
BlockFor(upload_id, filename) ==
    IF upload_id # None THEN ImageBlock(upload_id) ELSE Paragraph(FallbackText(filename))

\* the identifier the service gives the n-th upload slot
UploadId(n) == <<"upload", n>>
SlotsCreated == Cardinality({i \in 1..Len(trace) : trace[i].op = "file_uploads"})

\* Step 1, POST /v1/file_uploads.  resp: an error (status or body), a body without
\* "id", or a body with "id".  An error is caught and upload_file_to_notion
\* returns None.
CreateFileUpload ==
    /\ pc = "upload"
    /\ \E resp \in {"error", "no_id", "id"} :
        /\ trace' = Append(trace, Ev("file_uploads", idx, PhotoFilename(Photos[photo_idx]),
                                     resp # "error"))
        /\ IF resp = "error"
           THEN /\ stdout' = Append(stdout, <<"Error uploading", PhotoFilename(Photos[photo_idx])>>)
                /\ image_blocks' = Append(image_blocks,
                                          BlockFor(None, PhotoFilename(Photos[photo_idx])))
                /\ photo_idx' = photo_idx + 1
                /\ pc' = "photos"
                /\ UNCHANGED file_upload_id
           ELSE /\ file_upload_id' = IF resp = "id" THEN UploadId(SlotsCreated + 1) ELSE None
                /\ pc' = "send"
                /\ UNCHANGED <<stdout, image_blocks, photo_idx>>
    /\ UNCHANGED <<secrets_file, secrets, children, json_files, file_idx, cur_file, all_entries,
                   idx, formatted_date, iso_date_jst, count, stderr>>

\* faulty variant: the identifier is returned although the send failed
UploadResultIgnoringSend(id, sent) == id

\* what upload_file_to_notion returns after step 2
UploadResult(id, sent) == IF sent THEN id ELSE None

\* Step 2, POST /v1/file_uploads/{id}/send, then the caller appends the block
SendFile ==
    /\ pc = "send"
    /\ \E sent \in BOOLEAN :
        /\ trace' = Append(trace, Ev("send", idx, file_upload_id, sent))
        /\ stdout' = IF sent THEN stdout
                     ELSE Append(stdout, <<"Error uploading", PhotoFilename(Photos[photo_idx])>>)
        /\ image_blocks' = Append(image_blocks,
                                  BlockFor(UploadResult(file_upload_id, sent),
                                           PhotoFilename(Photos[photo_idx])))
    /\ file_upload_id' = None
    /\ photo_idx' = photo_idx + 1
    /\ pc' = "photos"
    /\ UNCHANGED <<secrets_file, secrets, children, json_files, file_idx, cur_file, all_entries,
                   idx, formatted_date, iso_date_jst, count, stderr>>

-----------------------------------------------------------------------------
(* The entry loop: children, pages.create, sleep *)

\* faulty variant: the text blocks are put first
TextThenBlocks(blocks, text) == TextBlocks(text) \o blocks

\* children.extend(image_blocks), then one paragraph per line of text
Children(blocks, text) == blocks \o TextBlocks(text)

\* faulty variant: a failed pages.create is not caught
AfterCreateUncaught(created) == IF created THEN "sleep" ELSE "crashed"

\* the position after pages.create: the sleep is inside the try, after the call
AfterCreate(created) == IF created THEN "sleep" ELSE "loop"

CreatePage ==
    /\ pc = "photos"
    /\ photo_idx > Len(Photos)
    /\ children' = Children(image_blocks, Get(Entry, "text", << >>))
    /\ \E created \in BOOLEAN :
        /\ trace' = Append(trace,
                Ev("pages.create", idx,
                   [title |-> formatted_date, date |-> iso_date_jst,
                    children |-> children'],
                   created))
        /\ stdout' = Append(stdout, <<IF created THEN "Created entry"
                                      ELSE "Error creating page", formatted_date>>)
        /\ count' = IF created THEN count + 1 ELSE count
        /\ pc' = AfterCreate(created)
        /\ idx' = IF pc' = "loop" THEN idx + 1 ELSE idx
    /\ UNCHANGED <<secrets_file, secrets, json_files, file_idx, cur_file, all_entries,
                   formatted_date, iso_date_jst, image_blocks, photo_idx,
                   file_upload_id, stderr>>

\* time.sleep(1.0)
Sleep ==
    /\ pc = "sleep"
    /\ trace' = Append(trace, Ev("sleep", idx, SleepSeconds, TRUE))
    /\ idx' = idx + 1
    /\ pc' = "loop"
    /\ UNCHANGED <<secrets_file, secrets, children, json_files, file_idx, cur_file, all_entries,
                   formatted_date, iso_date_jst, image_blocks, photo_idx,
                   file_upload_id, count, stdout, stderr>>

\* print(f"Finished processing. Created {count} entries.")
Finish ==
    /\ pc = "loop"
    /\ idx > Len(all_entries)
    /\ stdout' = Append(stdout, <<"Finished processing", count>>)
    /\ pc' = "done"
    /\ UNCHANGED <<secrets_file, secrets, children, json_files, file_idx, cur_file, all_entries,
                   idx, formatted_date, iso_date_jst, image_blocks, photo_idx,
                   file_upload_id, count, trace, stderr>>

-----------------------------------------------------------------------------
(* Specifications *)

Next ==
    \/ LoadSecrets
    \/ Configure
    \/ ReadFile
    \/ SortEntries
    \/ BeginEntry
    \/ NextPhoto
    \/ CreateFileUpload
    \/ SendFile
    \/ CreatePage
    \/ Sleep
    \/ Finish

Spec == Init /\ [][Next]_vars

-----------------------------------------------------------------------------
(* The text blocks on their own: children of an entry with text and no photo *)

Line(n) == [i \in 1..n |-> IF i % 2 = 1 THEN "a" ELSE "b"]

LineLens == {0, 1, 2, BlockLimit - 1, BlockLimit, BlockLimit + 1, BlockLimit + 2,
             BlockLimit + 4}

RECURSIVE Join(_)
Join(ls) ==
    IF Len(ls) = 1 THEN ls[1]
    ELSE ls[1] \o <<"\n">> \o Join(Tail(ls))

TextInputs ==
    {Join(ls) : ls \in SeqsUpTo({Line(n) : n \in LineLens}, MaxLines) \ {<< >>}}

InitText ==
    /\ pc = "text"
    /\ secrets_file = [exists |-> TRUE, json |-> TRUE,
                       keys |-> {"NOTION_TOKEN", "NOTION_DATABASE_ID"}]
    /\ secrets = [none |-> FALSE, keys |-> {"NOTION_TOKEN", "NOTION_DATABASE_ID"}]
    /\ json_files = 1
    /\ file_idx = 1
    /\ cur_file = NoFile
    /\ \E t \in TextInputs : all_entries = <<[dt |-> 0, data |-> [text |-> t]]>>
    /\ idx = 1
    /\ formatted_date = << >>
    /\ iso_date_jst = << >>
    /\ image_blocks = << >>
    /\ children = << >>
    /\ photo_idx = 1
    /\ file_upload_id = None
    /\ count = 0
    /\ trace = << >>
    /\ stdout = << >>
    /\ stderr = << >>

\* children = []; children.extend(image_blocks); for line in text.split('\n'): ...
BuildChildren ==
    /\ pc = "text"
    /\ children' = Children(image_blocks, Get(Entry, "text", << >>))
    /\ pc' = "text_done"
    /\ UNCHANGED <<secrets_file, secrets, json_files, file_idx, cur_file, all_entries,
                   idx, formatted_date, iso_date_jst, image_blocks, photo_idx,
                   file_upload_id, count, trace, stdout, stderr>>

NextText == BuildChildren

SpecText == InitText /\ [][NextText]_vars

-----------------------------------------------------------------------------
(* Vocabulary of the properties *)

Creates == {i \in 1..Len(trace) : trace[i].op = "pages.create"}
Uploads == {i \in 1..Len(trace) : trace[i].op \in {"file_uploads", "send"}}

\* the creationDate string of the k-th entry of the batch
DateOf(k) == all_entries[k].data["creationDate"]

\* a is an earlier UTC timestamp than b, read off the two strings
Earlier(a, b) ==
    \/ a.y < b.y
    \/ a.y = b.y /\ a.mo < b.mo
    \/ a.y = b.y /\ a.mo = b.mo /\ a.d < b.d
    \/ a.y = b.y /\ a.mo = b.mo /\ a.d = b.d /\ a.h < b.h
    \/ a.y = b.y /\ a.mo = b.mo /\ a.d = b.d /\ a.h = b.h /\ a.mi < b.mi

\* the string is a timestamp of the calendar
IsTimestamp(str) ==
    /\ str.kind = "iso"
    /\ str.mo \in 1..12
    /\ str.d >= 1
    /\ str.d <= DaysInMonth(str.y, str.mo)
    /\ str.h \in 0..23
    /\ str.mi \in 0..59

HasTimestamp(entry) ==
    "creationDate" \in DOMAIN entry /\ IsTimestamp(entry["creationDate"])

Occurrences(seq, x) == Cardinality({k \in 1..Len(seq) : seq[k] = x})

IsPermutation(a, b) ==
    /\ Len(a) = Len(b)
    /\ \A k \in 1..Len(a) : Occurrences(a, a[k]) = Occurrences(b, a[k])

\* the photo reference has md5 and type and its file is in the photo directory
HasLocalFile(photo) ==
    /\ "md5" \in DOMAIN photo
    /\ "type" \in DOMAIN photo
    /\ (photo["md5"] \o <<".">> \o photo["type"]) \in PhotosDir

\* the photo references of the entry that have a local file
LocalPhotos(entry) ==
    LET photos == Get(entry, "photos", << >>)
    IN  {q \in 1..Len(photos) : HasLocalFile(photos[q])}

InEntryLoop == pc \in {"loop", "photos", "upload", "send", "sleep", "done"}

-----------------------------------------------------------------------------
(* C1 *)

\* C1: record-creation requests are issued in ascending order of the entries'
\* timestamps.  The sort turns the collected list into a permutation of it in
\* which no entry stands before an entry with an earlier timestamp, and whenever
\* a pages.create request is issued for an entry, the request of every batch
\* entry with an earlier timestamp has been issued before it.
C1_SubmittedInTimestampOrder ==
    /\ [][(pc = "read" /\ pc' = "loop") =>
            /\ IsPermutation(all_entries, all_entries')
            /\ \A a, b \in 1..Len(all_entries') :
                 a < b => ~Earlier(all_entries'[b].data["creationDate"],
                                   all_entries'[a].data["creationDate"])]_vars
    /\ [](\A j \in Creates : \A a \in 1..Len(all_entries) :
            Earlier(DateOf(a), DateOf(trace[j].item))
                => \E i \in Creates : i < j /\ trace[i].item = a)

\* the run is finished and two requests were issued, the first of them for the
\* entry of 2024-01-01T15:00Z and the second for an entry with a later timestamp
C1_Witness ==
    /\ pc = "done"
    /\ \E i, j \in Creates :
        /\ i < j
        /\ Earlier(DateOf(trace[i].item), DateOf(trace[j].item))
        /\ all_entries[trace[i].item].data = [creationDate |-> IsoZ(2024, 1, 1, 15, 0),
                                               text |-> <<"a", "\n", "b">>]

-----------------------------------------------------------------------------
(* C2 *)

RECURSIVE WithTimestamp(_)
WithTimestamp(entries) ==
    IF entries = << >> THEN << >>
    ELSE (IF HasTimestamp(Head(entries)) THEN <<Head(entries)>> ELSE << >>)
         \o WithTimestamp(Tail(entries))

DataOf(items) == [k \in 1..Len(items) |-> items[k].data]

-----------------------------------------------------------------------------
(* C3 *)

CreatesOf(k) == {i \in Creates : trace[i].item = k}

\* how far the entry loop has come: the entry, its stage, the photo, the step
Stage == IF pc = "loop" THEN 0
         ELSE IF pc \in {"photos", "upload", "send"} THEN 1
         ELSE IF pc = "sleep" THEN 2 ELSE 3
Step == IF pc = "upload" THEN 1 ELSE IF pc = "send" THEN 2 ELSE 0
Progress == 1000 * idx + 100 * Stage + (IF Stage = 1 THEN 3 * photo_idx + Step ELSE 0)

\* the entry loop has a step to take: the next entry or the final print, the
\* next photo or the record, the request of the handshake, the sleep
CanStep ==
    /\ pc = "loop" => (idx <= Len(all_entries) \/ ENABLED Finish)
    /\ pc = "photos" => ENABLED (NextPhoto \/ CreatePage)
    /\ pc = "upload" => ENABLED CreateFileUpload
    /\ pc = "send" => ENABLED SendFile
    /\ pc = "sleep" => ENABLED Sleep

\* C3: the batch is partial-failure tolerant.  Whatever the uploads and the
\* creations answer, the entry loop is left only by the final print: it never
\* stops before it, every step takes it further, and so it ends there; no entry
\* is ever submitted twice, and at the end exactly one pages.create request,
\* carrying the entry's children, has been issued for every entry of the batch.
C3_PartialFailureTolerant ==
    /\ [][InEntryLoop => (InEntryLoop' /\ Progress' > Progress)]_vars
    /\ [](InEntryLoop => CanStep)
    /\ [](\A k \in 1..Len(all_entries) : Cardinality(CreatesOf(k)) <= 1)
    /\ [](pc = "done" =>
            /\ stdout[Len(stdout)] = <<"Finished processing", count>>
            /\ \A k \in 1..Len(all_entries) :
                /\ Cardinality(CreatesOf(k)) = 1
                /\ \A i \in CreatesOf(k) :
                    Len(trace[i].arg.children) =
                        Cardinality(LocalPhotos(all_entries[k].data))
                        + Len(Split(Get(all_entries[k].data, "text", << >>))))

\* the run is finished, and a request that failed, of an entry whose upload had
\* failed too, is followed by the request of a later entry
C3_Witness ==
    /\ pc = "done"
    /\ \E i, j \in Creates :
        /\ i < j
        /\ ~trace[i].ok
        /\ trace[i].item < trace[j].item
        /\ \E u \in Uploads : trace[u].item = trace[i].item /\ ~trace[u].ok

-----------------------------------------------------------------------------
(* C4 *)

\* C4: between any two consecutive record-creation requests there is a
\* 1-second sleep, whether the earlier request succeeded or failed.
C4_DelayBetweenCreations ==
    \A i, j \in Creates :
        (i < j /\ ~\E m \in Creates : i < m /\ m < j)
            => \E k \in (i + 1)..(j - 1) :
                    trace[k].op = "sleep" /\ trace[k].arg = SleepSeconds

-----------------------------------------------------------------------------
(* C5 *)

EndsWithEllipsis(str) ==
    Len(str) >= 3 /\ SubSeq(str, Len(str) - 2, Len(str)) = <<".", ".", ".">>

IsPrefix(a, b) == Len(a) <= Len(b) /\ SubSeq(b, 1, Len(a)) = a

\* C5: a text of N lines gives exactly N paragraph blocks in line order, the
\* content of every block is at most 2000 characters long, a line of more than
\* 2000 characters is cut and ends with "...", and any other line is unchanged.
C5_ParagraphPerLineWithinLimit ==
    pc = "text_done" =>
        LET lines == Split(Entry["text"])
        IN  /\ Len(children) = Len(lines)
            /\ \A k \in 1..Len(lines) :
                /\ children[k].type = "paragraph"
                /\ Len(children[k].content) <= BlockLimit
                /\ Len(lines[k]) <= BlockLimit => children[k].content = lines[k]
                /\ Len(lines[k]) > BlockLimit =>
                    /\ EndsWithEllipsis(children[k].content)
                    /\ IsPrefix(SubSeq(children[k].content, 1,
                                       Len(children[k].content) - 3), lines[k])

-----------------------------------------------------------------------------
(* C6 *)

\* C6: file-level failures are isolated.  A file that cannot be read or parsed
\* adds no entry and is reported; a file without the 'entries' key adds no
\* entry and is logged as skipped; after either, the reading loop goes on.
C6_FileFailuresIsolated ==
    [][(file_idx' = file_idx + 1 /\ cur_file'.kind \in {"unreadable", "nokey"}) =>
            /\ all_entries' = all_entries
            /\ pc' = "read"
            /\ Len(stdout') = Len(stdout) + 1
            /\ stdout'[Len(stdout')][2] = file_idx']_vars

-----------------------------------------------------------------------------
(* C7 *)

WellFormedSecrets ==
    /\ secrets_file.exists
    /\ secrets_file.json
    /\ secrets_file.keys = {"NOTION_TOKEN", "NOTION_DATABASE_ID"}

\* C7: with secrets.json absent, not JSON, or lacking one of the two keys, the
\* run aborts with a diagnostic message before any processing: once the
\* configuration has been looked at, the run has stopped, a message has been
\* written, and no file has been read and no request issued.
C7_AbortsWithDiagnostic ==
    (~WellFormedSecrets /\ pc \notin {"start", "loaded"}) =>
        /\ pc \in {"aborted", "crashed"}
        /\ stdout # << >> \/ stderr # << >>
        /\ file_idx = 0
        /\ trace = << >>

-----------------------------------------------------------------------------
(* C8 *)

DateText(y, mo, d) == Pad4(y) \o <<"-">> \o Pad2(mo) \o <<"-">> \o Pad2(d)

\* the calendar date in UTC+9 of a UTC timestamp string: the same day before
\* 15:00, the next day of the calendar from 15:00 on
DateInJapan(str) ==
    IF str.h < 15 THEN DateText(str.y, str.mo, str.d)
    ELSE IF str.d < DaysInMonth(str.y, str.mo) THEN DateText(str.y, str.mo, str.d + 1)
    ELSE IF str.mo < 12 THEN DateText(str.y, str.mo + 1, 1)
    ELSE DateText(str.y + 1, 1, 1)

\* C8: the title and the date property of every submitted record are the same
\* string, the YYYY-MM-DD date in UTC+9 of the entry's creation timestamp, and
\* the batch is ordered by the timestamps themselves.
C8_TitleAndDateInJapanTime ==
    /\ \A i \in Creates :
        /\ trace[i].arg.title = trace[i].arg.date
        /\ trace[i].arg.date = DateInJapan(DateOf(trace[i].item))
    /\ InEntryLoop =>
        \A a, b \in 1..Len(all_entries) : a < b => ~Earlier(DateOf(b), DateOf(a))

\* the records of 2024-01-01T15:00Z and of 2024-01-02T14:59Z, in that order,
\* both dated 2024-01-02
C8_Witness ==
    \E i, j \in Creates :
        /\ i < j
        /\ DateOf(trace[i].item) = IsoZ(2024, 1, 1, 15, 0)
        /\ DateOf(trace[j].item) = IsoZ(2024, 1, 2, 14, 59)
        /\ trace[i].arg.title = <<"2", "0", "2", "4", "-", "0", "1", "-", "0", "2">>
        /\ trace[j].arg.date = trace[i].arg.title

-----------------------------------------------------------------------------
(* C9 *)

Nth(S, m) == CHOOSE x \in S : Cardinality({y \in S : y < x}) = m - 1

SlotsOf(k) == {p \in 1..Len(trace) : trace[p].op = "file_uploads" /\ trace[p].item = k}

\* the handshake begun by the request at p ended with an identifier
Succeeded(p) ==
    /\ trace[p].ok
    /\ trace[p + 1].op = "send"
    /\ trace[p + 1].ok
    /\ trace[p + 1].arg # None

PhotoBlocksThenText(i) ==
    LET k == trace[i].item
        entry == all_entries[k].data
        photos == Get(entry, "photos", << >>)
        local == LocalPhotos(entry)
        n == Cardinality(local)
        blocks == trace[i].arg.children
        lines == Split(Get(entry, "text", << >>))
    IN  /\ Cardinality(SlotsOf(k)) = n
        /\ Len(blocks) = n + Len(lines)
        /\ \A m \in 1..n :
            LET photo == photos[Nth(local, m)]
                name == photo["md5"] \o <<".">> \o photo["type"]
                p == Nth(SlotsOf(k), m)
            IN  /\ trace[p].arg = name
                /\ blocks[m] =
                    IF Succeeded(p)
                    THEN [type |-> "image", content |-> << >>,
                          file_upload |-> trace[p + 1].arg]
                    ELSE [type |-> "paragraph",
                          content |-> <<"[Image Upload Failed: ">> \o name \o <<"]">>,
                          file_upload |-> None]
        /\ \A m \in 1..Len(lines) :
            /\ blocks[n + m].type = "paragraph"
            /\ blocks[n + m].content = lines[m]

\* C9: the children of every submitted record are the photo blocks, then the
\* text blocks.  In reference order, each photo reference with md5, type and a
\* local file gives exactly one upload and one block, an image block with the
\* upload identifier if the upload succeeded and a fallback paragraph naming the
\* file otherwise; any other reference gives no upload and no block.
C9_PhotoBlocksThenTextBlocks == \A i \in Creates : PhotoBlocksThenText(i)

\* a record of the entry with two local files and no text: the first upload
\* failed and the second succeeded, so a fallback paragraph, an image block and
\* the empty paragraph of the empty text
C9_Witness ==
    \E i \in Creates :
        LET photos == Get(all_entries[trace[i].item].data, "photos", << >>)
            blocks == trace[i].arg.children
        IN  /\ photos = <<PhotoAbcJpg, PhotoDefPng>>
            /\ Len(blocks) = 3
            /\ blocks[1].type = "paragraph"
            /\ blocks[1].content # << >>
            /\ blocks[2].type = "image"
            /\ blocks[3].content = << >>

-----------------------------------------------------------------------------
(* C10 *)

LastEvent == trace[Len(trace)]

\* C10: the handshake is followed in order and never raises.  A send request
\* directly follows a successful create-upload-slot request of the same entry;
\* the block appended after a handshake is an image block carrying the
\* identifier exactly when both requests succeeded and the slot had one, and a
\* fallback otherwise; the run never stops on an upload; every upload request of
\* an entry is issued before the entry's pages.create request, which is issued
\* whatever the uploads answered.
C10_UploadHandshake ==
    /\ \A p \in 1..Len(trace) :
        trace[p].op = "send" =>
            /\ p > 1
            /\ trace[p - 1].op = "file_uploads"
            /\ trace[p - 1].ok
            /\ trace[p - 1].item = trace[p].item
    /\ (pc = "photos" /\ trace # << >> /\ LastEvent.op \in {"file_uploads", "send"}) =>
            /\ image_blocks # << >>
            /\ (image_blocks[Len(image_blocks)].type = "image")
                 <=> (LastEvent.op = "send" /\ LastEvent.ok /\ LastEvent.arg # None)
            /\ image_blocks[Len(image_blocks)].type = "image"
                 => image_blocks[Len(image_blocks)].file_upload = LastEvent.arg
    /\ pc = "crashed" => trace = << >>
    /\ \A u \in Uploads : \A i \in Creates :
            trace[u].item = trace[i].item => u < i
    /\ pc = "done" =>
            \A u \in Uploads : \E i \in Creates : trace[i].item = trace[u].item

\* the run is finished; a slot was created, its send failed, and the record of
\* that entry was submitted afterwards with the fallback paragraph
C10_Witness ==
    /\ pc = "done"
    /\ \E u \in Uploads : \E i \in Creates :
        /\ trace[u].op = "send"
        /\ ~trace[u].ok
        /\ trace[u].arg # None
        /\ u < i
        /\ trace[i].item = trace[u].item
        /\ \E m \in 1..Len(trace[i].arg.children) :
                /\ trace[i].arg.children[m].type = "paragraph"
                /\ trace[i].arg.children[m].content # << >>
                /\ trace[i].arg.children[m].content[1] = "[Image Upload Failed: "

====
